---- MODULE Spec2Model ----
(***************************************************************************)
(* A state-machine model of the multitask DDPG agent (SharedDDPG) and of   *)
(* the experiment loop that drives it (exp_shared_bullet.experiment).      *)
(*                                                                         *)
(* Numerics.  Floating point values are modelled in fixed point:           *)
(*   - a discount factor is gamma_num[i] / GammaDen,                       *)
(*   - the soft-update coefficient is tau / TauDen,                        *)
(*   - network parameters, rewards and network outputs are integers.       *)
(* The critic target q is kept in units of 1/GammaDen.                     *)
(*                                                                         *)
(* A network is abstracted to two parameters, its shared part and its      *)
(* per-task part (the heads): [shared |-> w, head |-> w].  The output of a *)
(* forward pass and the result of an optimizer step are inputs of the      *)
(* model, chosen from small sets.                                          *)
(*                                                                         *)
(* fit is a straight-line procedure; the variable pc holds its position,   *)
(* so that the order of its steps is part of the model.  No other          *)
(* operation of the agent is enabled while a fit call is in progress       *)
(* (the program is single-threaded).                                       *)
(***************************************************************************)
EXTENDS Integers, Sequences, FiniteSets, TLC

-----------------------------------------------------------------------------
(* Configuration of the agent under analysis.                              *)

n_games == 2
batch_size == 2
initial_replay_size == 2
max_replay_size == 3

\* Observation and action width of each task, task i at position i + 1.
n_input_per_mdp == <<1, 2>>
n_actions_per_head == <<2, 1>>

GammaDen == 2
TauDen == 2

\* gamma of task i is gamma_num[i + 1] / GammaDen.
gamma_num == <<1, GammaDen>>

-----------------------------------------------------------------------------
(* Bounds of the exploration.                                              *)

MaxUpdates == 2
MaxDataset == 2

-----------------------------------------------------------------------------
(* Helpers.                                                                *)

Tasks == 0 .. (n_games - 1)

Rows == 1 .. (batch_size * n_games)

RECURSIVE SeqMax(_)
SeqMax(s) ==
    IF Len(s) = 1 THEN s[1]
    ELSE LET m == SeqMax(Tail(s)) IN IF s[1] >= m THEN s[1] ELSE m

\* observation_space.shape of the widest task, and max(n_actions_per_head)[0].
max_obs_dim == SeqMax(n_input_per_mdp)

_max_actions == SeqMax(n_actions_per_head)

Zeros(n) == [j \in 1 .. n |-> 0]

Const(n, v) == [j \in 1 .. n |-> v]

\* The task whose rows include row r of the combined batch (rows are 1-based:
\* row r is index r - 1 of the arrays of the code).
TaskOfRow(r) == (r - 1) \div batch_size

-----------------------------------------------------------------------------
VARIABLES
    replay_memory,               \* task -> the stored transitions, oldest first
    n_updates,
    critic_approximator,         \* live critic parameters
    target_critic_approximator,
    actor_approximator,          \* live actor parameters
    target_actor_approximator,
    frozen,                      \* [critic, actor] -> shared subset not trainable
    tau,                         \* soft-update coefficient, in 1/TauDen
    memory,                      \* the scratch arrays of _allocate_memory
    target_out,                  \* _next_q's local q, the target critic's output
    q,                           \* fit's local q (the critic target), <<>> outside
    pc,                          \* position of the agent inside fit
    dataset,                     \* argument of the current (or last) fit call
    added,                       \* buffer -> what the last fit call passed to its add
    err,                         \* exception raised by the last agent call
    fit_calls,                   \* history: fit calls that found every buffer initialized
    cycle_log,                   \* history: steps of the current (or last) update cycle
    rpc,                         \* position of the experiment script
    unfreeze_epoch,              \* args.unfreeze_epoch
    save_shared,                 \* args.save_shared given
    n_epoch,
    steps_left,                  \* steps left in the current core.learn call
    eval,                        \* agent.policy.eval
    best_score_sum,
    best_weights,
    saved,                       \* content of the file args.save_shared
    evals,                       \* history: <<score sum, exported bundle>> per evaluation
    n_freeze,                    \* history: calls of freeze_shared_weights by the script
    n_unfreeze                   \* history: calls of unfreeze_shared_weights by the script

agent_vars == <<replay_memory, n_updates, critic_approximator,
                target_critic_approximator, actor_approximator,
                target_actor_approximator, frozen, tau, memory, target_out,
                q, pc, dataset, added, err, fit_calls, cycle_log>>

runner_vars == <<rpc, unfreeze_epoch, save_shared, n_epoch, steps_left, eval,
                 best_score_sum, best_weights, saved, evals, n_freeze,
                 n_unfreeze>>

vars == <<agent_vars, runner_vars>>

\* Values of the script's variables: a score sum s is <<s>> and -np.inf is
\* <<>>; None is <<>>; a file holding x is <<x>> and no file is <<>>.
MinusInf == <<>>

None == <<>>

NoFile == <<>>

-----------------------------------------------------------------------------
(* Transitions.  A sample of the core is (state, action, reward,           *)
(* next_state, absorbing) where state and next_state carry the task id in  *)
(* front of the observation: d[0][0] in the code is d.state[1] here.       *)

TaskId(d) == d.state[1]

\* Width of the observation (action) of a transition tagged g: that of the
\* buffer it is filed under by Python's indexing.
ObsWidth(g) == n_input_per_mdp[(g % n_games) + 1]

ActWidth(g) == n_actions_per_head[(g % n_games) + 1]

Kinds == {1, 2}

NextKind(k) == IF k + 1 \in Kinds THEN k + 1 ELSE 1

Transition(g, k, ab) ==
    [state      |-> <<g>> \o Const(ObsWidth(g), k),
     action     |-> Const(ActWidth(g), k),
     reward     |-> k,
     next_state |-> <<g>> \o Const(ObsWidth(g), NextKind(k)),
     absorbing  |-> ab]

TransitionsOf(ids, abs) ==
    {Transition(g, k, ab) : g \in ids, k \in Kinds, ab \in abs}

\* The dataset of n steps of the core: every step adds one transition of
\* each task, in task order.
RECURSIVE CoreDataset(_)
CoreDataset(n) ==
    IF n = 0 THEN <<>>
    ELSE CoreDataset(n - 1) \o [j \in 1 .. n_games |-> Transition(j - 1, 1, 0)]

SeqsUpTo(S, n) == UNION {[1 .. m -> S] : m \in 1 .. n}

-----------------------------------------------------------------------------
(* Per-task replay buffer (ReplayMemoryMulty).                             *)

\* add: append, evicting the oldest entries beyond the capacity.
Add(buf, d) ==
    LET all == buf \o d
        n   == Len(all)
    IN  IF n > max_replay_size
        THEN SubSeq(all, n - max_replay_size + 1, n)
        ELSE all

initialized(buf) == Len(buf) >= initial_replay_size

\* get: the sampled transitions as parallel arrays, the task id stripped from
\* the states.  idx is the sequence of sampled positions.
Get(buf, idx) ==
    [state      |-> [b \in 1 .. Len(idx) |-> Tail(buf[idx[b]].state)],
     action     |-> [b \in 1 .. Len(idx) |-> buf[idx[b]].action],
     reward     |-> [b \in 1 .. Len(idx) |-> buf[idx[b]].reward],
     next_state |-> [b \in 1 .. Len(idx) |-> Tail(buf[idx[b]].next_state)],
     absorbing  |-> [b \in 1 .. Len(idx) |-> buf[idx[b]].absorbing]]

-----------------------------------------------------------------------------
(* SharedDDPG.__init__ and _allocate_memory.                               *)

_allocate_memory ==
    [state_idxs      |-> [r \in Rows |-> 0],
     state           |-> [r \in Rows |-> Zeros(max_obs_dim)],
     action          |-> [r \in Rows |-> Zeros(_max_actions)],
     reward          |-> [r \in Rows |-> 0],
     next_state_idxs |-> [r \in Rows |-> 0],
     next_state      |-> [r \in Rows |-> Zeros(max_obs_dim)],
     absorbing       |-> [r \in Rows |-> 0]]

WeightVals == {0, 4}

Weights == [shared : WeightVals, head : WeightVals]

\* The networks are built with some initial parameters; the targets are
\* synced to the live networks (lines 68-71).
AgentInit(taus, ws) ==
    /\ replay_memory = [i \in Tasks |-> <<>>]
    /\ n_updates = 0
    /\ critic_approximator \in ws
    /\ actor_approximator \in ws
    /\ target_critic_approximator = critic_approximator
    /\ target_actor_approximator = actor_approximator
    /\ frozen = [critic |-> FALSE, actor |-> FALSE]
    /\ tau \in taus
    /\ memory = _allocate_memory
    /\ target_out = <<>>
    /\ q = <<>>
    /\ pc = "idle"
    /\ dataset = <<>>
    /\ added = [i \in Tasks |-> <<>>]
    /\ err = "none"
    /\ fit_calls = 0
    /\ cycle_log = <<>>

-----------------------------------------------------------------------------
(* SharedDDPG.fit, lines 97-107: routing of the dataset to the buffers.    *)

RECURSIVE SortedSeq(_)
SortedSeq(S) ==
    IF S = {} THEN <<>>
    ELSE LET m == CHOOSE x \in S : \A y \in S : x <= y
         IN  <<m>> \o SortedSeq(S \ {m})

\* np.unique(s): the distinct task ids of the dataset, ascending.
Unique(ds) == SortedSeq({TaskId(ds[j]) : j \in 1 .. Len(ds)})

\* SubBatch with the comparison of line 100 written s <= g.
SubBatch_UpTo(ds, g) == SelectSeq(ds, LAMBDA d : TaskId(d) <= g)

\* The transitions of the dataset tagged g, in dataset order (lines 100-103).
SubBatch(ds, g) == SelectSeq(ds, LAMBDA d : TaskId(d) = g)

\* self._replay_memory[g] on a Python list of n_games buffers: a negative g
\* counts from the end, anything outside -n_games .. n_games - 1 raises
\* IndexError.
ValidIndex(g) == g \in (0 - n_games) .. (n_games - 1)

ListIndex(g) == IF g < 0 THEN g + n_games ELSE g

\* The loop of lines 99-105 over the ids still to do.
RECURSIVE RouteLoop(_, _, _, _)
RouteLoop(rm, ad, games, ds) ==
    IF games = <<>>
    THEN [rm |-> rm, added |-> ad, err |-> "none"]
    ELSE LET g == Head(games) IN
         IF ~ValidIndex(g)
         THEN [rm |-> rm, added |-> ad, err |-> "IndexError"]
         ELSE LET b == ListIndex(g)
                  d == SubBatch(ds, g)
              IN  RouteLoop([rm EXCEPT ![b] = Add(@, d)],
                            [ad EXCEPT ![b] = @ \o d],
                            Tail(games), ds)

\* fit_condition with np.any in place of np.all.
fit_condition_Any(rm) == \E i \in Tasks : initialized(rm[i])

\* Line 107.
fit_condition(rm) == \A i \in Tasks : initialized(rm[i])

fit_add(ds) ==
    /\ pc = "idle"
    /\ LET r == RouteLoop(replay_memory, [i \in Tasks |-> <<>>], Unique(ds), ds)
       IN  /\ replay_memory' = r.rm
           /\ added' = r.added
           /\ err' = r.err
           /\ pc' = IF r.err = "none" THEN "check" ELSE "raised"
    /\ dataset' = ds
    /\ UNCHANGED <<n_updates, critic_approximator, target_critic_approximator,
                   actor_approximator, target_actor_approximator, frozen, tau,
                   memory, target_out, q,
                   fit_calls, cycle_log>>

\* Lines 107-109; the dataset and the sub-batches are dead from here on.
fit_check ==
    /\ pc = "check"
    /\ pc' = IF fit_condition(replay_memory) THEN "sample" ELSE "idle"
    /\ dataset' = <<>>
    /\ added' = [i \in Tasks |-> <<>>]
    /\ fit_calls' = IF fit_condition(replay_memory) THEN fit_calls + 1
                    ELSE fit_calls
    /\ cycle_log' = IF fit_condition(replay_memory) THEN <<>> ELSE cycle_log
    /\ UNCHANGED <<replay_memory, n_updates, critic_approximator,
                   target_critic_approximator, actor_approximator,
                   target_actor_approximator, frozen, tau, memory, target_out, q, err>>

\* The exception of line 105 leaves fit; the agent stays as the loop left it.
fit_raise ==
    /\ pc = "raised"
    /\ pc' = "idle"
    /\ dataset' = <<>>
    /\ added' = [i \in Tasks |-> <<>>]
    /\ UNCHANGED <<replay_memory, n_updates, critic_approximator,
                   target_critic_approximator, actor_approximator,
                   target_actor_approximator, frozen, tau, memory, target_out, q, err,
                   fit_calls, cycle_log>>

-----------------------------------------------------------------------------
(* Lines 110-124: one batch per task, written into the scratch arrays.     *)

\* a[start:stop, :width] = rows, as a function of the old array a.
WriteCols(a, start, width, rows) ==
    [r \in Rows |->
        IF r > start /\ r <= start + batch_size
        THEN [j \in 1 .. Len(a[r]) |->
                 IF j <= width THEN rows[r - start][j] ELSE a[r][j]]
        ELSE a[r]]

\* a[start:stop] = values.
WriteRows(a, start, values) ==
    [r \in Rows |->
        IF r > start /\ r <= start + batch_size
        THEN values[r - start] ELSE a[r]]

\* Start without the batch size.
Start_Unscaled(i) == i

\* First row (0-based) of the block of task i, line 115.
Start(i) == batch_size * i

\* The body of the loop for task i, the sample being game.
WriteTask(mem, i, game) ==
    [state_idxs      |-> WriteRows(mem.state_idxs, Start(i),
                                   Const(batch_size, i)),
     state           |-> WriteCols(mem.state, Start(i),
                                   n_input_per_mdp[i + 1], game.state),
     action          |-> WriteCols(mem.action, Start(i),
                                   n_actions_per_head[i + 1], game.action),
     reward          |-> WriteRows(mem.reward, Start(i), game.reward),
     next_state_idxs |-> WriteRows(mem.next_state_idxs, Start(i),
                                   Const(batch_size, i)),
     next_state      |-> WriteCols(mem.next_state, Start(i),
                                   n_input_per_mdp[i + 1], game.next_state),
     absorbing       |-> WriteRows(mem.absorbing, Start(i), game.absorbing)]

\* The loop from task i on; idx[i] are the positions get samples from buffer
\* i.  get on a buffer that is not initialized raises.
RECURSIVE BuildBatch(_, _, _)
BuildBatch(mem, i, idx) ==
    IF i = n_games THEN [mem |-> mem, err |-> "none"]
    ELSE IF ~initialized(replay_memory[i])
         THEN [mem |-> mem, err |-> "InsufficientDataError"]
         ELSE BuildBatch(WriteTask(mem, i, Get(replay_memory[i], idx[i])),
                         i + 1, idx)

\* The positions get may sample: with replacement, among the stored ones.
SampleIdx ==
    {idx \in [Tasks -> [1 .. batch_size -> 1 .. max_replay_size]] :
        \A i \in Tasks : \A b \in 1 .. batch_size :
            idx[i][b] <= Len(replay_memory[i]) \/ idx[i][b] = 1}

fit_sample(idx) ==
    /\ pc = "sample"
    /\ LET r == BuildBatch(memory, 0, idx)
       IN  /\ memory' = r.mem
           /\ err' = r.err
           /\ pc' = IF r.err = "none" THEN "next_q" ELSE "idle"
    /\ UNCHANGED <<replay_memory, n_updates, critic_approximator,
                   target_critic_approximator, actor_approximator,
                   target_actor_approximator, frozen, tau, target_out, q, dataset, added,
                   fit_calls, cycle_log>>

-----------------------------------------------------------------------------
(* Lines 126-127 and _next_q: the critic target.                           *)

AnyAbsorbing(i) ==
    \E r \in Rows : TaskOfRow(r) = i /\ memory.absorbing[r] # 0

\* _next_q masking a whole block as soon as one of its rows is absorbing.
_next_q_BlockMask(qs) ==
    [r \in Rows |->
        LET i     == TaskOfRow(r)
            out_q == qs[r] * gamma_num[i + 1]
        IN  IF AnyAbsorbing(i) THEN 0 ELSE out_q]

\* qs is the output of the target critic on the combined batch; the result
\* is in units of 1/GammaDen.
_next_q(qs) ==
    [r \in Rows |->
        LET i     == TaskOfRow(r)
            out_q == qs[r] * gamma_num[i + 1]
        IN  IF AnyAbsorbing(i)
            THEN out_q * (1 - memory.absorbing[r])
            ELSE out_q]

fit_target(qs) ==
    /\ pc = "next_q"
    /\ target_out' = qs
    /\ q' = [r \in Rows |-> memory.reward[r] * GammaDen + _next_q(qs)[r]]
    /\ pc' = "critic_fit"
    /\ UNCHANGED <<replay_memory, n_updates, critic_approximator,
                   target_critic_approximator, actor_approximator,
                   target_actor_approximator, frozen, tau, memory, dataset,
                   added, err,
                   fit_calls, cycle_log>>

-----------------------------------------------------------------------------
(* Lines 129-133: the two optimizer steps.  w is what the optimizer would  *)
(* make of the parameters; a frozen shared subset is not trainable.        *)

\* The critic the actor's loss evaluates, lines 12-23 and 58-59: the live one,
\* as it is when the actor is fitted.
ActorLoss == critic_approximator

\* The log with one more step; with it, the live critic the step wrote, read
\* or left.
Logged(step, critic) == Append(cycle_log, [step |-> step, critic |-> critic])

\* Trained by an optimizer that was handed every parameter, frozen or not.
Trained_IgnoreFrozen(old, w, isfrozen) == w

Trained(old, w, isfrozen) ==
    [shared |-> IF isfrozen THEN old.shared ELSE w.shared,
     head   |-> w.head]

fit_critic(w) ==
    /\ pc = "critic_fit"
    /\ critic_approximator' = Trained(critic_approximator, w, frozen.critic)
    /\ target_out' = <<>>
    /\ q' = <<>>
    /\ pc' = "actor_fit"
    /\ cycle_log' = Logged("critic_fit", critic_approximator')
    /\ UNCHANGED <<replay_memory, n_updates, target_critic_approximator,
                   actor_approximator, target_actor_approximator, frozen, tau,
                   memory, dataset, added, err,
                   fit_calls>>

fit_actor(w) ==
    /\ pc = "actor_fit"
    /\ actor_approximator' = Trained(actor_approximator, w, frozen.actor)
    /\ pc' = "count"
    /\ cycle_log' = Logged("actor_fit", ActorLoss)
    /\ UNCHANGED <<replay_memory, n_updates, critic_approximator,
                   target_critic_approximator, target_actor_approximator,
                   frozen, tau, memory, target_out, q, dataset, added, err,
                   fit_calls>>

\* Line 135 counting one update per task of the batch.
fit_count_PerTask ==
    /\ pc = "count"
    /\ n_updates' = n_updates + n_games
    /\ pc' = "update_target"
    /\ cycle_log' = Logged("count", critic_approximator)
    /\ UNCHANGED <<replay_memory, critic_approximator,
                   target_critic_approximator, actor_approximator,
                   target_actor_approximator, frozen, tau, memory, target_out,
                   q, dataset, added, err, fit_calls>>

\* Line 135.
fit_count ==
    /\ pc = "count"
    /\ n_updates' = n_updates + 1
    /\ pc' = "update_target"
    /\ cycle_log' = Logged("count", critic_approximator)
    /\ UNCHANGED <<replay_memory, critic_approximator,
                   target_critic_approximator, actor_approximator,
                   target_actor_approximator, frozen, tau, memory, target_out, q, dataset,
                   added, err,
                   fit_calls>>

-----------------------------------------------------------------------------
(* _update_target, called last by fit (line 137).                          *)

\* tau * live + (1 - tau) * target for one parameter, in fixed point.
Mix(live, target) == (tau * live + (TauDen - tau) * target) \div TauDen

SoftUpdate(live, target) ==
    [shared |-> Mix(live.shared, target.shared),
     head   |-> Mix(live.head, target.head)]

\* _update_target with line 185 reading the critic's target.
_update_target_CrossRead ==
    /\ target_critic_approximator' =
           SoftUpdate(critic_approximator, target_critic_approximator)
    /\ target_actor_approximator' =
           SoftUpdate(actor_approximator, target_critic_approximator)

_update_target ==
    /\ target_critic_approximator' =
           SoftUpdate(critic_approximator, target_critic_approximator)
    /\ target_actor_approximator' =
           SoftUpdate(actor_approximator, target_actor_approximator)

fit_update_target ==
    /\ pc = "update_target"
    /\ _update_target
    /\ pc' = "idle"
    /\ cycle_log' = Logged("update_target", critic_approximator)
    /\ UNCHANGED <<replay_memory, n_updates, critic_approximator,
                   actor_approximator, frozen, tau, memory, target_out, q, dataset, added,
                   err,
                   fit_calls>>

-----------------------------------------------------------------------------
(* Shared-weight operations of the agent, lines 139-155, over the network  *)
(* methods get/set/freeze/unfreeze_shared_weights.                         *)

\* Shape of the shared tensors of a network: the hidden layers, the same for
\* the actor and the critic.
shared_shape == [critic |-> <<2, 2>>, actor |-> <<2, 2>>]

Shapes == {<<2, 2>>, <<2, 3>>}

\* Network export: a copy of the shared parameters.
NetGetShared(net, shape) == [shape |-> shape, value |-> net.shared]

\* Network import: overwrites the shared parameters, or fails on a shape
\* mismatch leaving the network as it was.
NetSetShared(net, shape, part) ==
    IF part.shape = shape
    THEN [ok |-> TRUE, net |-> [net EXCEPT !.shared = part.value]]
    ELSE [ok |-> FALSE, net |-> net]

get_shared_weights ==
    <<NetGetShared(critic_approximator, shared_shape.critic),
      NetGetShared(actor_approximator, shared_shape.actor)>>

\* The bundles a caller may hand to set_shared_weights: <<critic part, actor
\* part>>, each a tensor of some shape.
Bundles == [1 .. 2 -> [shape : Shapes, value : WeightVals]]

\* Lines 146-147: the critic first, then the actor.
set_shared_weights(weights) ==
    /\ pc = "idle"
    /\ LET c == NetSetShared(critic_approximator, shared_shape.critic,
                             weights[1])
           a == NetSetShared(actor_approximator, shared_shape.actor,
                             weights[2])
       IN  /\ critic_approximator' = c.net
           /\ actor_approximator' =
                  IF c.ok THEN a.net ELSE actor_approximator
           /\ err' = IF c.ok /\ a.ok THEN "none" ELSE "ShapeMismatchError"
    /\ UNCHANGED <<replay_memory, n_updates, target_critic_approximator,
                   target_actor_approximator, frozen, tau, memory, target_out, q, pc,
                   dataset, added,
                   fit_calls, cycle_log>>

freeze_shared_weights ==
    /\ pc = "idle"
    /\ frozen' = [frozen EXCEPT !.critic = TRUE, !.actor = TRUE]
    /\ err' = "none"
    /\ UNCHANGED <<replay_memory, n_updates, critic_approximator,
                   target_critic_approximator, actor_approximator,
                   target_actor_approximator, tau, memory, target_out, q, pc, dataset,
                   added,
                   fit_calls, cycle_log>>

unfreeze_shared_weights ==
    /\ pc = "idle"
    /\ frozen' = [frozen EXCEPT !.critic = FALSE, !.actor = FALSE]
    /\ err' = "none"
    /\ UNCHANGED <<replay_memory, n_updates, critic_approximator,
                   target_critic_approximator, actor_approximator,
                   target_actor_approximator, tau, memory, target_out, q, pc, dataset,
                   added,
                   fit_calls, cycle_log>>

\* _post_load, lines 207-209: the scratch arrays are allocated anew.
_post_load ==
    /\ pc = "idle"
    /\ memory' = _allocate_memory
    /\ UNCHANGED <<replay_memory, n_updates, critic_approximator,
                   target_critic_approximator, actor_approximator,
                   target_actor_approximator, frozen, tau, target_out, q, pc, dataset,
                   added, err,
                   fit_calls, cycle_log>>

-----------------------------------------------------------------------------
(* The experiment script is not running in the specifications of the agent *)
(* alone.                                                                  *)

NoRunner ==
    /\ rpc = "none"
    /\ unfreeze_epoch = 0
    /\ save_shared = FALSE
    /\ n_epoch = 0
    /\ steps_left = 0
    /\ eval = FALSE
    /\ best_score_sum = MinusInf
    /\ best_weights = None
    /\ saved = NoFile
    /\ evals = <<>>
    /\ n_freeze = 0
    /\ n_unfreeze = 0

ZeroWeights == [shared |-> 0, head |-> 0]

-----------------------------------------------------------------------------
(* Steps of fit that take no input, as actions of a specification.         *)

Check == fit_check /\ UNCHANGED runner_vars

Raise == fit_raise /\ UNCHANGED runner_vars

Sample == \E idx \in SampleIdx : fit_sample(idx) /\ UNCHANGED runner_vars

\* Sampling where every buffer holds copies of one transition: the sampled
\* positions make no difference, the first one stands for all.
SampleSame ==
    fit_sample([i \in Tasks |-> [b \in 1 .. batch_size |-> 1]])
    /\ UNCHANGED runner_vars

Count == fit_count /\ UNCHANGED runner_vars

UpdateTarget == fit_update_target /\ UNCHANGED runner_vars

PostLoad == rpc = "none" /\ _post_load /\ UNCHANGED runner_vars

-----------------------------------------------------------------------------
(* SpecData: the agent fed datasets of well-tagged transitions, absorbing  *)
(* or not; the target critic returns any of QVals on each row; the         *)
(* optimizer leaves the parameters where they are.                         *)

DataTransitions ==
    {Transition(g, 1, 0) : g \in Tasks} \cup {Transition(g, 2, 1) : g \in Tasks}

DataDatasets == SeqsUpTo(DataTransitions, MaxDataset)

QVals == {1, 3}

DataInit == AgentInit({TauDen}, {ZeroWeights}) /\ NoRunner

DataAdd ==
    /\ rpc = "none"
    /\ n_updates < MaxUpdates
    /\ \E ds \in DataDatasets : fit_add(ds) /\ UNCHANGED runner_vars

DataTarget ==
    \E qs \in [Rows -> QVals] : fit_target(qs) /\ UNCHANGED runner_vars

DataCritic == fit_critic(critic_approximator) /\ UNCHANGED runner_vars

DataActor == fit_actor(actor_approximator) /\ UNCHANGED runner_vars

DataNext ==
    \/ DataAdd
    \/ Check
    \/ Sample
    \/ DataTarget
    \/ DataCritic
    \/ DataActor
    \/ Count
    \/ UpdateTarget
    \/ PostLoad

SpecData == DataInit /\ [][DataNext]_vars

-----------------------------------------------------------------------------
(* Spec: the agent fed any dataset, task ids in range or not (-1 and       *)
(* n_games are the nearest ids out of range); the optimizer may move every *)
(* trainable parameter anywhere in WeightVals.                             *)

AnyIds == (0 - 1) .. n_games

AnyDatasets == SeqsUpTo({Transition(g, 1, 0) : g \in AnyIds}, MaxDataset)

Init == AgentInit({TauDen}, {ZeroWeights}) /\ NoRunner

Fit ==
    /\ rpc = "none"
    /\ n_updates < MaxUpdates
    /\ \E ds \in AnyDatasets : fit_add(ds) /\ UNCHANGED runner_vars

Target == \E qs \in [Rows -> {1}] : fit_target(qs) /\ UNCHANGED runner_vars

CriticFit ==
    /\ rpc = "none"
    /\ \E w \in Weights : fit_critic(w) /\ UNCHANGED runner_vars

ActorFit ==
    /\ rpc = "none"
    /\ \E w \in Weights : fit_actor(w) /\ UNCHANGED runner_vars

Next ==
    \/ Fit
    \/ Check
    \/ Raise
    \/ Sample
    \/ Target
    \/ CriticFit
    \/ ActorFit
    \/ Count
    \/ UpdateTarget

Spec == Init /\ [][Next]_vars


-----------------------------------------------------------------------------
(* SpecWeights: the agent with any soft-update coefficient, fed the        *)
(* datasets the core builds (one transition of every task per step); the   *)
(* optimizer may move every trainable parameter anywhere in WeightVals,    *)
(* and the caller may freeze, unfreeze and import shared weights between   *)
(* fit calls.                                                              *)

WeightsInit == AgentInit(0 .. TauDen, {ZeroWeights}) /\ NoRunner

WeightsFit ==
    /\ rpc = "none"
    /\ n_updates < MaxUpdates
    /\ \E n \in {1, initial_replay_size} :
           fit_add(CoreDataset(n)) /\ UNCHANGED runner_vars

SetShared ==
    /\ rpc = "none"
    /\ \E weights \in Bundles :
           set_shared_weights(weights) /\ UNCHANGED runner_vars

Freeze == rpc = "none" /\ freeze_shared_weights /\ UNCHANGED runner_vars

Unfreeze ==
    rpc = "none" /\ unfreeze_shared_weights /\ UNCHANGED runner_vars

WeightsNext ==
    \/ WeightsFit
    \/ Check
    \/ SampleSame
    \/ Target
    \/ CriticFit
    \/ ActorFit
    \/ Count
    \/ UpdateTarget
    \/ SetShared
    \/ Freeze
    \/ Unfreeze

SpecWeights == WeightsInit /\ [][WeightsNext]_vars

-----------------------------------------------------------------------------
(* The experiment script, exp_shared_bullet.experiment, lines 158-228.     *)
(* rpc is its position; a call of core.learn hands datasets to fit, whose  *)
(* steps run while the script waits (pc # "idle").  The options --load,    *)
(* --save, --render and --debug are not given.                             *)

evaluation_frequency == 2

max_steps == 6

\* The loop of line 193 written range(1, max_steps // evaluation_frequency).
n_epochs_Exclusive == max_steps \div evaluation_frequency - 1

\* range(1, max_steps // evaluation_frequency + 1) has this many epochs.
n_epochs == max_steps \div evaluation_frequency

\* The per-task mean returns an evaluation may compute.
Scores ==
    {[i \in Tasks |-> IF i = 0 THEN v ELSE 0] : v \in {0 - 1, 1}}

RECURSIVE SumTo(_, _)
SumTo(f, i) == IF i < 0 THEN 0 ELSE f[i] + SumTo(f, i - 1)

\* np.sum(current_score)
Sum(score) == SumTo(score, n_games - 1)

\* Geq as a strict comparison.
Geq_Strict(a, b) == b = MinusInf \/ a > b[1]

\* a >= b where b may be -np.inf.
Geq(a, b) == b = MinusInf \/ a >= b[1]

\* What the optimizer may make of a network in the runs of the script.
RunnerWeights == {[shared |-> v, head |-> v] : v \in WeightVals}

\* The bundles --transfer may name: exports of a run of the same networks.
TransferBundles ==
    {<<[shape |-> shared_shape.critic, value |-> v],
       [shape |-> shared_shape.actor, value |-> v]>> : v \in WeightVals}

RunnerInit ==
    /\ AgentInit({TauDen}, {ZeroWeights})
    /\ rpc = "start"
    /\ unfreeze_epoch \in 0 .. (n_epochs + 1)
    /\ save_shared \in BOOLEAN
    /\ n_epoch = 0
    /\ steps_left = 0
    /\ eval = FALSE
    /\ best_score_sum = MinusInf
    /\ best_weights = None
    /\ saved = NoFile
    /\ evals = <<>>
    /\ n_freeze = 0
    /\ n_unfreeze = 0

\* Lines 159-160: one fit call on initial_replay_size steps of every task.
FillReplay ==
    /\ rpc = "start"
    /\ fit_add(CoreDataset(initial_replay_size))
    /\ rpc' = "filling"
    /\ UNCHANGED <<unfreeze_epoch, save_shared, n_epoch, steps_left, eval,
                   best_score_sum, best_weights, saved, evals, n_freeze,
                   n_unfreeze>>

Filled ==
    /\ rpc = "filling"
    /\ pc = "idle"
    /\ rpc' = "transfer"
    /\ UNCHANGED agent_vars
    /\ UNCHANGED <<unfreeze_epoch, save_shared, n_epoch, steps_left, eval,
                   best_score_sum, best_weights, saved, evals, n_freeze,
                   n_unfreeze>>

\* Lines 162-164, --transfer given or not.
Transfer ==
    /\ rpc = "transfer"
    /\ \/ UNCHANGED agent_vars
       \/ \E weights \in TransferBundles : set_shared_weights(weights)
    /\ rpc' = "eval"
    /\ UNCHANGED <<unfreeze_epoch, save_shared, n_epoch, steps_left, eval,
                   best_score_sum, best_weights, saved, evals, n_freeze,
                   n_unfreeze>>

\* Lines 171 and 202.
EvalBegin ==
    /\ rpc = "eval"
    /\ eval' = TRUE
    /\ rpc' = "evaluating"
    /\ UNCHANGED agent_vars
    /\ UNCHANGED <<unfreeze_epoch, save_shared, n_epoch, steps_left,
                   best_score_sum, best_weights, saved, evals, n_freeze,
                   n_unfreeze>>

\* Lines 172-191: the evaluation before the first epoch and what follows it.
EvalInitial ==
    /\ rpc = "evaluating"
    /\ n_epoch = 0
    /\ \E score \in Scores :
           evals' = Append(evals, <<Sum(score), get_shared_weights>>)
    /\ eval' = FALSE
    /\ IF unfreeze_epoch > 0
       THEN freeze_shared_weights /\ n_freeze' = n_freeze + 1
       ELSE UNCHANGED agent_vars /\ n_freeze' = n_freeze
    /\ best_score_sum' = MinusInf
    /\ best_weights' = None
    /\ rpc' = "epoch"
    /\ UNCHANGED <<unfreeze_epoch, save_shared, n_epoch, steps_left, saved,
                   n_unfreeze>>

\* Lines 203-225: the evaluation that ends an epoch.
EvalEpoch ==
    /\ rpc = "evaluating"
    /\ n_epoch > 0
    /\ \E score \in Scores :
           LET current_score_sum == Sum(score) IN
           /\ evals' = Append(evals, <<current_score_sum, get_shared_weights>>)
           /\ IF save_shared /\ Geq(current_score_sum, best_score_sum)
              THEN /\ best_score_sum' = <<current_score_sum>>
                   /\ best_weights' = get_shared_weights
              ELSE UNCHANGED <<best_score_sum, best_weights>>
    /\ eval' = FALSE
    /\ rpc' = "epoch"
    /\ UNCHANGED agent_vars
    /\ UNCHANGED <<unfreeze_epoch, save_shared, n_epoch, steps_left, saved,
                   n_freeze, n_unfreeze>>

\* UnfreezeDue comparing with == where line 194 has >=.
UnfreezeDue_Equal(n) == n = unfreeze_epoch /\ unfreeze_epoch > 0

\* Line 194: n_epoch >= args.unfreeze_epoch > 0.
UnfreezeDue(n) == n >= unfreeze_epoch /\ unfreeze_epoch > 0

\* Lines 193-195: the next epoch begins.
EpochBegin ==
    /\ rpc = "epoch"
    /\ n_epoch < n_epochs
    /\ n_epoch' = n_epoch + 1
    /\ IF UnfreezeDue(n_epoch')
       THEN unfreeze_shared_weights /\ n_unfreeze' = n_unfreeze + 1
       ELSE UNCHANGED agent_vars /\ n_unfreeze' = n_unfreeze
    /\ steps_left' = evaluation_frequency
    /\ rpc' = "learn"
    /\ UNCHANGED <<unfreeze_epoch, save_shared, eval, best_score_sum,
                   best_weights, saved, evals, n_freeze>>

\* Lines 198-199: one step of every task, then fit (n_steps_per_fit = 1).
LearnStep ==
    /\ rpc = "learn"
    /\ steps_left > 0
    /\ fit_add(CoreDataset(1))
    /\ steps_left' = steps_left - 1
    /\ UNCHANGED <<rpc, unfreeze_epoch, save_shared, n_epoch, eval,
                   best_score_sum, best_weights, saved, evals, n_freeze,
                   n_unfreeze>>

Learned ==
    /\ rpc = "learn"
    /\ steps_left = 0
    /\ pc = "idle"
    /\ rpc' = "eval"
    /\ UNCHANGED agent_vars
    /\ UNCHANGED <<unfreeze_epoch, save_shared, n_epoch, steps_left, eval,
                   best_score_sum, best_weights, saved, evals, n_freeze,
                   n_unfreeze>>

\* Lines 227-228, after the last epoch.
Terminate ==
    /\ rpc = "epoch"
    /\ n_epoch >= n_epochs
    /\ saved' = IF save_shared THEN <<best_weights>> ELSE saved
    /\ rpc' = "done"
    /\ UNCHANGED agent_vars
    /\ UNCHANGED <<unfreeze_epoch, save_shared, n_epoch, steps_left, eval,
                   best_score_sum, best_weights, evals, n_freeze, n_unfreeze>>

RunnerCritic ==
    /\ rpc # "none"
    /\ \E w \in RunnerWeights : fit_critic(w) /\ UNCHANGED runner_vars

RunnerActor ==
    /\ rpc # "none"
    /\ \E w \in RunnerWeights : fit_actor(w) /\ UNCHANGED runner_vars

RunnerNext ==
    \/ FillReplay
    \/ Filled
    \/ Transfer
    \/ EvalBegin
    \/ EvalInitial
    \/ EvalEpoch
    \/ EpochBegin
    \/ LearnStep
    \/ Learned
    \/ Terminate
    \/ Check
    \/ SampleSame
    \/ Target
    \/ RunnerCritic
    \/ RunnerActor
    \/ Count
    \/ UpdateTarget

SpecRunner == RunnerInit /\ [][RunnerNext]_vars

-----------------------------------------------------------------------------
(* SpecFreeze: the agent driven either by a caller as in SpecWeights or by *)
(* the experiment script as in SpecRunner.                                 *)

FreezeInit == WeightsInit \/ RunnerInit

FreezeNext == WeightsNext \/ RunnerNext

SpecFreeze == FreezeInit /\ [][FreezeNext]_vars

-----------------------------------------------------------------------------
(* Properties.                                                             *)

Occurrences(seq, t) == Cardinality({j \in DOMAIN seq : seq[j] = t})

InCycle == pc \in {"next_q", "critic_fit", "actor_fit", "count", "update_target"}

\* C2: when fit has routed a dataset whose task ids are all in 0..G-1, every
\* transition of the dataset was passed to add of the buffer of its own task
\* id as often as it occurs in the dataset and to no other buffer (nothing
\* dropped, nothing duplicated, dataset order kept), and every buffer holds
\* only transitions of its own task id.
C2_RoutedByTaskId ==
    /\ \A i \in Tasks : \A j \in DOMAIN replay_memory[i] :
           TaskId(replay_memory[i][j]) = i
    /\ pc = "check" =>
          \A i \in Tasks :
              /\ \A t \in DataTransitions :
                     Occurrences(added[i], t) =
                         IF TaskId(t) = i THEN Occurrences(dataset, t) ELSE 0
              /\ \A j, k \in DOMAIN added[i] :
                     j < k =>
                        \E a, b \in DOMAIN dataset :
                            a < b /\ dataset[a] = added[i][j]
                                  /\ dataset[b] = added[i][k]

\* A dataset with transitions of both tasks has been routed, and a buffer
\* has already evicted (it is full and received more).
C2_Witness ==
    /\ pc = "check"
    /\ Len(dataset) = MaxDataset
    /\ \A i \in Tasks : Len(added[i]) >= 1
    /\ Len(replay_memory[0]) = max_replay_size

\* C4: in every update cycle the critic target of row r, of task i, is
\* reward[r] + gamma[i] * (1 - absorbing[r]) * Qtarget[r] (here in units of
\* 1/GammaDen); on an absorbing row it is the reward whatever the target
\* critic returned.
C4_CriticTarget ==
    pc = "critic_fit" =>
        \A r \in Rows :
            /\ q[r] = memory.reward[r] * GammaDen
                      + gamma_num[TaskOfRow(r) + 1]
                        * (1 - memory.absorbing[r]) * target_out[r]
            /\ memory.absorbing[r] = 1 => q[r] = memory.reward[r] * GammaDen

\* A block holding an absorbing and a non-absorbing row, the target critic
\* returning a nonzero value on both; the non-absorbing row is discounted by
\* the gamma of its task, which is not that of the other task.
C4_Witness ==
    /\ pc = "critic_fit"
    /\ \E r1, r2 \in Rows :
           /\ TaskOfRow(r1) = 0 /\ TaskOfRow(r2) = 0
           /\ memory.absorbing[r1] = 1 /\ memory.absorbing[r2] = 0
           /\ target_out[r1] = 3 /\ target_out[r2] = 3
           /\ q[r1] = memory.reward[r1] * GammaDen
           /\ q[r2] = memory.reward[r2] * GammaDen + 3 * gamma_num[1]
    /\ \E r \in Rows : TaskOfRow(r) = 1 /\ memory.absorbing[r] = 0

PaddingZero ==
    \A r \in Rows :
        LET i == TaskOfRow(r) IN
        /\ \A j \in 1 .. max_obs_dim :
               j > n_input_per_mdp[i + 1] =>
                   memory.state[r][j] = 0 /\ memory.next_state[r][j] = 0
        /\ \A j \in 1 .. _max_actions :
               j > n_actions_per_head[i + 1] => memory.action[r][j] = 0

Tagged ==
    \A r \in Rows :
        /\ memory.state_idxs[r] = TaskOfRow(r)
        /\ memory.next_state_idxs[r] = TaskOfRow(r)

\* C5 as stated: the rows of block i are always tagged i and their padding
\* entries are always zero.
C5_AlwaysTaggedAndPadded == Tagged /\ PaddingZero

\* C5, amended: the padding entries are zero in every state; the rows of
\* block i are tagged i from the moment an update cycle has filled the
\* scratch arrays, and throughout every update cycle; until then (after
\* construction or a load) the arrays are as allocated, all rows tagged 0.
C5_PaddedAndTaggedOnceBuilt ==
    /\ PaddingZero
    /\ Tagged \/ memory = _allocate_memory
    /\ InCycle => Tagged

\* A second update cycle has overwritten the rows of the first one: a row
\* that held an observation of kind 2 now holds one of kind 1, next to a
\* padding entry.
C5_Witness ==
    /\ pc = "next_q"
    /\ n_updates >= 1
    /\ \E r1, r2 \in Rows :
           /\ TaskOfRow(r1) = 0 /\ memory.state[r1] = <<1, 0>>
           /\ TaskOfRow(r2) = 0 /\ memory.state[r2] = <<2, 0>>
    /\ \E r \in Rows : TaskOfRow(r) = 1 /\ memory.action[r] = <<2, 0>>

Networks ==
    <<critic_approximator, target_critic_approximator, actor_approximator,
      target_actor_approximator>>

\* C1: a step of fit that ends with some buffer below min_size is not part
\* of an update cycle: it leaves the live and target parameters and the
\* update counter as they were, and fit goes on to return, not to sample.
C1_UpdateOnlyWhenAllInitialized ==
    [][(\E i \in Tasks : ~initialized(replay_memory'[i])) =>
           /\ Networks' = Networks
           /\ n_updates' = n_updates
           /\ memory' = memory
           /\ pc' \in {"idle", "check", "raised"}]_vars

\* A fit call has returned without an update although the buffer of task 0
\* is initialized: the buffer of task 1 is not.
C1_Witness ==
    /\ pc = "idle"
    /\ n_updates = 0
    /\ initialized(replay_memory[0])
    /\ Len(replay_memory[1]) = 1
    /\ memory = _allocate_memory

\* C3: a fit call given a transition whose task id is not in 0..G-1 fails
\* at once (any exception raised by the routing is taken for the
\* InvalidTaskIdError of the claim), stores that transition in no buffer and
\* runs no update cycle.
C3_InvalidTaskIdRejected ==
    /\ (\E j \in DOMAIN dataset : TaskId(dataset[j]) \notin Tasks) =>
           pc = "raised" /\ err # "none"
    /\ \A i \in Tasks : \A j \in DOMAIN replay_memory[i] :
           TaskId(replay_memory[i][j]) \in Tasks

MixOf(live, target) == (tau * live + (TauDen - tau) * target) \div TauDen

SoftUpdated(live, target, new) ==
    /\ new.shared = MixOf(live.shared, target.shared)
    /\ new.head = MixOf(live.head, target.head)
    /\ tau = TauDen => new = live
    /\ tau = 0 => new = target

\* C6: the soft update sets every parameter of each target network to
\* tau * live + (1 - tau) * target_old of the same network; with tau = 1 the
\* targets become the live weights, with tau = 0 they stay; the live weights
\* are not modified.
C6_SoftUpdate ==
    [][pc = "update_target" =>
           /\ SoftUpdated(critic_approximator, target_critic_approximator,
                          target_critic_approximator')
           /\ SoftUpdated(actor_approximator, target_actor_approximator,
                          target_actor_approximator')
           /\ critic_approximator' = critic_approximator
           /\ actor_approximator' = actor_approximator]_vars

\* After a soft update with tau = 1/2 the critic's target is half way
\* between its old value 0 and the live value 4, and the actor's target, whose
\* live network stayed at 0, has not moved.
C6_Witness ==
    /\ rpc = "none"
    /\ pc = "idle"
    /\ n_updates = 1
    /\ 2 * tau = TauDen
    /\ critic_approximator = [shared |-> 4, head |-> 4]
    /\ target_critic_approximator = [shared |-> 2, head |-> 2]
    /\ actor_approximator = ZeroWeights
    /\ target_actor_approximator = ZeroWeights

\* C7: a set_shared_weights call that fails with ShapeMismatchError leaves
\* the shared parameters of the live critic and of the live actor as they
\* were.
C7_ImportAllOrNothing ==
    [][(pc = "idle" /\ pc' = "idle" /\ err' = "ShapeMismatchError") =>
           /\ critic_approximator' = critic_approximator
           /\ actor_approximator' = actor_approximator]_vars

InitialEvalDone == Len(evals) >= 1

AllFrozen == frozen.critic /\ frozen.actor

\* C8 as stated: with T > 0 the script calls unfreeze_shared_weights once,
\* when the epoch counter reaches T, and not again; with T = 0 it calls
\* neither freeze nor unfreeze.
C8_UnfreezeExactlyOnce ==
    /\ unfreeze_epoch = 0 => n_freeze = 0 /\ n_unfreeze = 0
    /\ unfreeze_epoch > 0 =>
           n_unfreeze = IF n_epoch >= unfreeze_epoch THEN 1 ELSE 0

\* C8, amended: with T > 0 the script freezes once, after the first
\* evaluation, and calls unfreeze_shared_weights at the start of every epoch
\* n >= T, that is n - T + 1 times by epoch n; the shared weights are frozen
\* from the first evaluation to the start of epoch T and trainable from then
\* on.  With T = 0 it calls neither and the weights are never frozen.
C8_UnfreezeEveryEpochFromT ==
    /\ unfreeze_epoch = 0 => n_freeze = 0 /\ n_unfreeze = 0 /\ ~frozen.critic
    /\ unfreeze_epoch > 0 =>
           /\ n_freeze = IF InitialEvalDone THEN 1 ELSE 0
           /\ n_unfreeze = IF n_epoch >= unfreeze_epoch
                           THEN n_epoch - unfreeze_epoch + 1 ELSE 0
           /\ frozen.critic = (InitialEvalDone /\ n_epoch < unfreeze_epoch)
    /\ frozen.actor = frozen.critic

\* The run is over, T = 2 and unfreeze was called at the epochs 2 and 3.
C8_Witness ==
    /\ rpc = "done"
    /\ unfreeze_epoch = 2
    /\ n_epoch = 3
    /\ n_freeze = 1
    /\ n_unfreeze = 2
    /\ ~frozen.critic

\* evals[k] is the evaluation of epoch k - 1.
MaxSumFrom(k0) ==
    CHOOSE m \in {evals[k][1] : k \in k0 .. Len(evals)} :
        \A k \in k0 .. Len(evals) : evals[k][1] <= m

LatestBestFrom(k0) ==
    CHOOSE k \in k0 .. Len(evals) :
        /\ evals[k][1] = MaxSumFrom(k0)
        /\ \A j \in k0 .. Len(evals) : evals[j][1] = MaxSumFrom(k0) => j <= k

\* C9 as stated: at the end of a run that was asked to save, the file holds
\* the bundle exported at the latest of the evaluations, the one before the
\* first epoch included, whose score sum is the maximum over all of them.
C9_BestOfAllEvaluations ==
    (rpc = "done" /\ save_shared) =>
        saved = <<evals[LatestBestFrom(1)][2]>>

\* C9, amended: the evaluation before the first epoch takes no part (the best
\* sum is reset to -inf after it), and the best bundle is tracked only when
\* saving was requested.  Then, after the evaluation of every epoch >= 1,
\* the stored bundle is the export taken at the latest evaluation of an epoch
\* >= 1 whose score sum is the maximum over the epochs >= 1 so far; at the end
\* of the run it is what the file holds.  Without the request nothing is
\* stored and nothing written.
C9_BestOfEpochEvaluations ==
    /\ (save_shared /\ Len(evals) >= 2 /\ rpc # "evaluating") =>
           /\ best_score_sum = <<MaxSumFrom(2)>>
           /\ best_weights = evals[LatestBestFrom(2)][2]
    /\ (rpc = "done" /\ save_shared) => saved = <<best_weights>>
    /\ rpc # "done" => saved = NoFile
    /\ ~save_shared => best_weights = None /\ saved = NoFile

\* The run is over; the first evaluation scored highest and was passed over;
\* the epochs 2 and 3 tie for the best of the others with different exports,
\* and the file holds the export of epoch 3.
C9_Witness ==
    /\ rpc = "done"
    /\ save_shared
    /\ evals[1][1] = 1
    /\ evals[2][1] = 0 - 1 /\ evals[3][1] = 0 - 1 /\ evals[4][1] = 0 - 1
    /\ evals[1][2] # evals[4][2]
    /\ evals[3][2] # evals[4][2]
    /\ saved = <<evals[4][2]>>

SharedOf == <<critic_approximator.shared, actor_approximator.shared>>

\* C10: freeze_shared_weights and unfreeze_shared_weights set the flag of
\* both live networks whatever it was before (so a second call changes
\* nothing) and touch no parameter; no step of an update cycle run while
\* frozen changes the shared parameters of either network; in the script
\* with T > 0 no step between the first evaluation and the start of epoch T
\* changes them.
C10_FreezeContract ==
    /\ [][freeze_shared_weights => AllFrozen' /\ Networks' = Networks]_vars
    /\ [][unfreeze_shared_weights =>
              ~frozen.critic' /\ ~frozen.actor' /\ Networks' = Networks]_vars
    /\ [][(AllFrozen /\ pc # "idle") => SharedOf' = SharedOf]_vars
    /\ [][(rpc # "none" /\ InitialEvalDone /\ unfreeze_epoch > 0
           /\ n_epoch < unfreeze_epoch) => SharedOf' = SharedOf]_vars

\* The first update cycle of an agent, run frozen, has moved the heads of
\* both networks and left the shared parameters where they were.
C10_Witness ==
    /\ rpc = "none"
    /\ AllFrozen
    /\ pc = "count"
    /\ n_updates = 0
    /\ critic_approximator = [shared |-> 0, head |-> 4]
    /\ actor_approximator = [shared |-> 0, head |-> 4]

\* The script, with T = 2, is in the second update cycle of epoch 1: the
\* shared parameters are those exported at the first evaluation, the heads
\* are not where the first cycle of the epoch left them.
C10_RunnerFrozen ==
    /\ rpc = "learn"
    /\ unfreeze_epoch = 2
    /\ n_epoch = 1
    /\ AllFrozen
    /\ pc = "count"
    /\ critic_approximator.shared = evals[1][2][1].value
    /\ critic_approximator.head # critic_approximator.shared

\* After unfreeze the shared parameters change again: in epoch 2 of that run
\* they differ from the export of the evaluation of epoch 1.
C10_RunnerResumed ==
    /\ rpc = "learn"
    /\ unfreeze_epoch = 2
    /\ n_epoch = 2
    /\ ~frozen.critic
    /\ Len(evals) = 2
    /\ SharedOf # <<evals[2][2][1].value, evals[2][2][2].value>>

CycleSteps == <<"critic_fit", "actor_fit", "count", "update_target">>

StepsOf(log) == [k \in 1 .. Len(log) |-> log[k].step]

\* The steps of the update cycle done when fit stands at pc.
StepsDoneAt ==
    CASE pc \in {"sample", "next_q", "critic_fit"} -> 0
      [] pc = "actor_fit" -> 1
      [] pc = "count" -> 2
      [] pc = "update_target" -> 3
      [] OTHER -> IF fit_calls = 0 THEN 0 ELSE 4

Targets == <<target_critic_approximator, target_actor_approximator>>

\* C11: an update cycle is one critic fit, then one actor fit whose loss
\* reads the critic that fit has just written, then one increment of the
\* update counter and one soft update of both targets; the update counter,
\* starting from 0, is the number of fit calls that found every buffer
\* initialized (less the one whose cycle has not counted yet); the counter
\* moves only by that increment, and the targets are written only by the
\* soft update.
C11_UpdateCycle ==
    /\ [](StepsOf(cycle_log) = SubSeq(CycleSteps, 1, StepsDoneAt))
    /\ [](Len(cycle_log) >= 2 => cycle_log[2].critic = cycle_log[1].critic)
    /\ [](n_updates =
              IF pc \in {"sample", "next_q", "critic_fit", "actor_fit", "count"}
              THEN fit_calls - 1 ELSE fit_calls)
    /\ [][n_updates' # n_updates =>
              pc = "count" /\ n_updates' = n_updates + 1]_vars
    /\ [][Targets' # Targets => pc = "update_target" /\ pc' = "idle"]_vars
    /\ [][(pc \in {"critic_fit", "actor_fit", "count"}) =>
              Targets' = Targets]_vars

\* Two fit calls found the buffers initialized and two cycles ran: the
\* counter is 2, the last cycle's steps are logged in order, both critic fits
\* moved the live critic to 4 and, with tau = 1/2, the two soft updates took
\* its target from 0 to 2 and to 3.
C11_Witness ==
    /\ rpc = "none"
    /\ pc = "idle"
    /\ fit_calls = 2
    /\ n_updates = 2
    /\ 2 * tau = TauDen
    /\ StepsOf(cycle_log) = CycleSteps
    /\ critic_approximator = [shared |-> 4, head |-> 4]
    /\ cycle_log[2].critic = critic_approximator
    /\ target_critic_approximator = [shared |-> 3, head |-> 3]

\* Positions of the script by phase: "transfer" (the optional imports of
\* lines 162-168) and "eval" (about to set the flag) lie between the fill or
\* a learning phase and the evaluation; "epoch" (the loop head, with the
\* freeze and the unfreeze) lies between an evaluation and what follows it.
FillingReplay == rpc \in {"start", "filling"}

Evaluating == rpc = "evaluating"

Learning == rpc = "learn"

Terminal == rpc = "done"

PhaseOrder ==
    {<<"start", "filling">>, <<"filling", "transfer">>, <<"transfer", "eval">>,
     <<"eval", "evaluating">>, <<"evaluating", "epoch">>,
     <<"epoch", "learn">>, <<"learn", "eval">>, <<"epoch", "done">>}

\* C12: the script goes FillingReplay -> Evaluating(epoch 0) -> {Learning ->
\* Evaluating}* -> Terminal; nothing is evaluated during FillingReplay, and
\* when the evaluation of epoch 0 starts every buffer is initialized and no
\* fit is under way; each Learning phase is followed by one Evaluating phase
\* (one evaluation per epoch, after the one of epoch 0), for exactly
\* max_steps // evaluation_frequency epochs; the eval flag of the policy is
\* true during the Evaluating phases and at no other time.
C12_PhaseOrder ==
    /\ [][rpc' # rpc => <<rpc, rpc'>> \in PhaseOrder]_vars
    /\ [](FillingReplay \/ rpc = "transfer" => evals = <<>> /\ n_epoch = 0)
    /\ [](Evaluating => fit_condition(replay_memory) /\ pc = "idle")
    /\ [](Len(evals) = IF rpc \in {"epoch", "done"} THEN n_epoch + 1
                       ELSE n_epoch)
    /\ [](Learning => n_epoch \in 1 .. (max_steps \div evaluation_frequency))
    /\ [](Terminal => /\ n_epoch = max_steps \div evaluation_frequency
                      /\ Len(evals) = n_epoch + 1)
    /\ [](eval <=> Evaluating)
    /\ [][Learning' /\ ~Learning => ~eval /\ ~eval']_vars

\* The run is over after three epochs and four evaluations; the fill and
\* each of the two steps of every epoch ran an update cycle; exploration is
\* enabled again.
C12_Witness ==
    /\ Terminal
    /\ n_epoch = 3
    /\ Len(evals) = 4
    /\ ~eval
    /\ fit_calls = 1 + 3 * evaluation_frequency
    /\ n_updates = fit_calls

====
